---- MODULE Spec2Model ----
(***************************************************************************)
(* Deferred UI composition engine of evergreen_egui (src/src/command.rs). *)
(* A build pass enqueues commands through the public verbs               *)
(* (RootCommands::show, UiCommands::show, UiCommands::add); the command   *)
(* queue is then drained in order against the World, in which the         *)
(* UiStack resource tracks the open regions.                              *)
(***************************************************************************)
EXTENDS Integers, Sequences, FiniteSets, TLC

(* ------------------------------ bounds --------------------------------- *)
\* longest command log one build pass may enqueue
MaxCmds == 5
\* deepest nesting of UiCommands::show calls inside a root
MaxDepth == 2
\* number of build passes (frames)
MaxPasses == 2
\* longest hand-made command sequence drained by SpecRaw
MaxRaw == 3
\* longest command sequence of opens and top-level closes drained by SpecUnclosed
MaxUnclosed == 4
\* highest value the Counter resource is driven to
MaxCount == 1
\* calls made on the immediate-mode surface in one render
MaxCalls == 2
\* cached systems running inside one another
MaxNest == 2
\* widgets in one tuple
MaxTuple == 2
\* tuples added in one render
MaxAdds == 1

(* --------------------------- value domains ----------------------------- *)
\* teardown-data types (BeginRoot::Data / BeginContainer::Data)
DataTypes == {"A", "B"}
\* responders: the unit responder `()` and a SystemResponder
ResponderKinds == {"unit", "system"}
\* widgets: a plain egui widget and a cached system widget
WidgetKinds == {"egui", "cached"}
\* what a draw / an end reports back (egui::Response)
Responses == {"idle", "clicked"}
\* registration keys of the cached computation units
WidgetUnit == "widget_unit"
ResponderUnit == "responder_unit"
Units == {WidgetUnit, ResponderUnit}

VARIABLES
    phase,      \* "build": the verbs are enqueuing; "drain": the queue is applied
    pass,       \* number of the current build pass
    frames,     \* the show calls whose closure f is still running (call stack)
    queue,      \* the command queue of this pass, in queue order
    cursor,     \* number of commands of the queue already applied
    applied,    \* enqueue ordinals of the applied commands, in application order
    ctxAvail,   \* EguiContexts::try_ctx_mut() yields a context
    uiStack,    \* the UiStack resource of the World: [some, stack]
    cache,      \* the cached systems registered in the World
    inits,      \* how often each cached system has been initialised
    counter,    \* the Counter resource of the World
    delivered,  \* activations handed to the responder system in the finished passes
    trace,      \* calls made on the collaborators in this pass, in order
    sizes,      \* size_of of the system definitions the program hands over as cached units
    meddling,   \* which callbacks of the program touch the UiStack of their World, and how
    active,     \* the run_cached calls whose system is still running (call stack)
    calls       \* what the immediate-mode calls of WorldUi did, in call order

vars == <<phase, pass, frames, queue, cursor, applied, ctxAvail, uiStack, cache, inits,
          counter, delivered, trace, sizes, meddling, active, calls>>

\* the state of the immediate-mode surface and of the program's definitions
userVars == <<sizes, meddling, active, calls>>

\* a program whose callbacks leave the UiStack alone
NoMeddling == [how |-> "none", who |-> {}]

(* ------------------------------ UiStack -------------------------------- *)
\* World without a UiStack resource
NoStack == [some |-> FALSE, stack |-> <<>>]

\* World holding the UiStack s
SomeStack(s) == [some |-> TRUE, stack |-> s]

\* UiStack::default()
EmptyUiStack == <<>>

\* UiStack::push(data)
Push(s, data) == Append(s, data)

\* UiStack::len()
StackLen(s) == Len(s)

\* UiStack::top_mut(): the innermost entry, if any
HasTop(s) == Len(s) > 0

Top(s) == s[Len(s)]

\* UiStack::pop::<T>(): the stack that is left behind
PopRest(s) == IF Len(s) = 0 THEN s ELSE SubSeq(s, 1, Len(s) - 1)

\* UiStack::pop::<T>(): something is yielded only for a top entry of type T
PopYields(s, ty) == Len(s) > 0 /\ s[Len(s)].ty = ty

(* ---------------------------- collaborators ---------------------------- *)
Warn(c, msg) == [op |-> "warn", cmd |-> c.seq, msg |-> msg]

BeginEvent(c, parent) == [op |-> "begin", cmd |-> c.seq, region |-> c.region, parent |-> parent]

\* teardown data produced by begin for the region of command c under parent
BeginData(c, parent) == [region |-> c.region, ty |-> c.ty, parent |-> parent]

\* res: what end hands back (EndRoot::end hands back nothing)
EndEvent(c, data, parent, res) ==
    [op |-> "end", cmd |-> c.seq, region |-> c.region, data |-> data, parent |-> parent,
     res |-> res]

\* the apply call panics and takes the drain down with it
Panic(c) == [op |-> "panic", cmd |-> c.seq]

ConvertEvent(c) == [op |-> "convert", cmd |-> c.seq, wkind |-> c.wkind]

DrawEvent(c, top, res) == [op |-> "draw", cmd |-> c.seq, top |-> top, res |-> res]

RespondEvent(c, res) ==
    [op |-> "respond", cmd |-> c.seq, from |-> c.kind, resp |-> c.resp, res |-> res]

\* World::run_system_cached_with registers the system on first use
RunSystemCached(ch, key) == ch \cup {key}

\* IntoWidget::into_widget(world): a cached system widget is initialised
IntoWidget(ch, wkind) == IF wkind = "cached" THEN RunSystemCached(ch, WidgetUnit) ELSE ch

\* Responder::respond: `()` does nothing, SystemResponder runs its system
Respond(ch, rkind) == IF rkind = "system" THEN RunSystemCached(ch, ResponderUnit) ELSE ch

\* slip: the system is initialised on every run (as World::run_system_once does)
RunSystemCachedInitsAlways(ins, ch, key) == [ins EXCEPT ![key] = @ + 1]

\* World::run_system_cached_with initialises the system only when it is not cached yet
RunSystemCachedInits(ins, ch, key) ==
    IF key \in ch THEN ins ELSE [ins EXCEPT ![key] = @ + 1]

\* initialisations done by IntoWidget::into_widget(world)
IntoWidgetInits(ins, ch, wkind) ==
    IF wkind = "cached" THEN RunSystemCachedInits(ins, ch, WidgetUnit) ELSE ins

\* initialisations done by Responder::respond
RespondInits(ins, ch, rkind) ==
    IF rkind = "system" THEN RunSystemCachedInits(ins, ch, ResponderUnit) ELSE ins

\* the responder system: In<Response> is its only input, the Counter its only effect
ResponderSystem(cnt, input) == IF input = "clicked" THEN cnt + 1 ELSE cnt

\* slip: the unit responder runs the system as well
RespondCounterUnitRuns(cnt, rkind, res) == ResponderSystem(cnt, res)

\* slip: the system is run with a default response instead of the delivered one
RespondCounterDefaultInput(cnt, rkind, res) ==
    IF rkind = "system" THEN ResponderSystem(cnt, "idle") ELSE cnt

\* the user activates a widget only while the Counter has room to count it
InRange(cnt, rkind, res) == (rkind = "system" /\ res = "clicked") => cnt < MaxCount

\* Responder::respond on the Counter: SystemResponder passes the response on as the input
RespondCounter(cnt, rkind, res) ==
    IF rkind = "system" THEN ResponderSystem(cnt, res) ELSE cnt

(* ------------------------------ commands ------------------------------- *)
\* seq: enqueue ordinal; region: the region the command opens or closes;
\* owner: the region whose build function enqueued it (0: none)
StartRootCommand(n, ty) ==
    [kind |-> "StartRoot", seq |-> n, region |-> n, owner |-> 0, ty |-> ty,
     resp |-> "unit", wkind |-> "egui"]

EndRootCommand(n, region, ty) ==
    [kind |-> "EndRoot", seq |-> n, region |-> region, owner |-> 0, ty |-> ty,
     resp |-> "unit", wkind |-> "egui"]

StartContainerCommand(n, owner, ty) ==
    [kind |-> "StartContainer", seq |-> n, region |-> n, owner |-> owner, ty |-> ty,
     resp |-> "unit", wkind |-> "egui"]

EndContainerCommand(n, region, owner, ty, resp) ==
    [kind |-> "EndContainer", seq |-> n, region |-> region, owner |-> owner, ty |-> ty,
     resp |-> resp, wkind |-> "egui"]

WidgetCommand(n, owner, wkind, resp) ==
    [kind |-> "Widget", seq |-> n, region |-> 0, owner |-> owner, ty |-> "A",
     resp |-> resp, wkind |-> wkind]

IsOpen(c) == c.kind \in {"StartRoot", "StartContainer"}

IsClose(c) == c.kind \in {"EndRoot", "EndContainer"}

\* slip: the command is put in front of the queue
EnqueueFront(q, cmd) == <<cmd>> \o q

\* Commands::queue(cmd)
Enqueue(q, cmd) == Append(q, cmd)

\* enqueue ordinal of the next command
NextSeq == Len(queue) + 1

(* ------------------------------- Init ---------------------------------- *)
Init ==
    /\ phase = "build"
    /\ pass = 1
    /\ frames = <<>>
    /\ queue = <<>>
    /\ cursor = 0
    /\ applied = <<>>
    /\ ctxAvail \in BOOLEAN
    /\ uiStack = NoStack
    /\ cache = {}
    /\ inits = [k \in Units |-> 0]
    /\ counter = 0
    /\ delivered = 0
    /\ trace = <<>>
    /\ sizes = [k \in Units |-> 0]
    /\ meddling = NoMeddling
    /\ active = <<>>
    /\ calls = <<>>

(* ------------------------ build: the public verbs ---------------------- *)
\* every show call still running needs room for its close command
Room(n) == Len(queue) + Len(frames) + n <= MaxCmds

\* RootCommands::show up to the call of f
RootShowEnter(ty) ==
    /\ phase = "build"
    /\ frames = <<>>
    /\ Room(2)
    /\ queue' = Enqueue(queue, StartRootCommand(NextSeq, ty))
    /\ frames' = Append(frames, [kind |-> "root", region |-> NextSeq, ty |-> ty, resp |-> "unit"])
    /\ UNCHANGED <<phase, pass, cursor, applied, ctxAvail, uiStack, cache, inits, counter, delivered, trace, sizes, meddling, active, calls>>

\* slip: the close command of the root is never queued
RootShowReturnNoClose ==
    /\ phase = "build"
    /\ Len(frames) = 1
    /\ frames[1].kind = "root"
    /\ frames' = <<>>
    /\ UNCHANGED <<phase, pass, queue, cursor, applied, ctxAvail, uiStack, cache, inits, counter, delivered, trace, sizes, meddling, active, calls>>

\* RootCommands::show after f has returned
RootShowReturn ==
    /\ phase = "build"
    /\ Len(frames) = 1
    /\ frames[1].kind = "root"
    /\ queue' = Enqueue(queue, EndRootCommand(NextSeq, frames[1].region, frames[1].ty))
    /\ frames' = <<>>
    /\ UNCHANGED <<phase, pass, cursor, applied, ctxAvail, uiStack, cache, inits, counter, delivered, trace, sizes, meddling, active, calls>>

\* UiCommands::add
UiAdd(wkind, resp) ==
    /\ phase = "build"
    /\ frames # <<>>
    /\ Room(1)
    /\ queue' = Enqueue(queue, WidgetCommand(NextSeq, frames[Len(frames)].region, wkind, resp))
    /\ UNCHANGED <<phase, pass, frames, cursor, applied, ctxAvail, uiStack, cache, inits, counter, delivered, trace, sizes, meddling, active, calls>>

\* slip: the close command is queued before f runs
UiShowEnterCloseFirst(ty, resp) ==
    /\ phase = "build"
    /\ frames # <<>>
    /\ Len(frames) <= MaxDepth
    /\ Room(2)
    /\ queue' = Enqueue(Enqueue(queue,
                    StartContainerCommand(NextSeq, frames[Len(frames)].region, ty)),
                    EndContainerCommand(NextSeq + 1, NextSeq, frames[Len(frames)].region, ty, resp))
    /\ frames' = Append(frames, [kind |-> "container", region |-> NextSeq, ty |-> ty, resp |-> resp])
    /\ UNCHANGED <<phase, pass, cursor, applied, ctxAvail, uiStack, cache, inits, counter, delivered, trace, sizes, meddling, active, calls>>

\* UiCommands::show up to the call of f
UiShowEnter(ty, resp) ==
    /\ phase = "build"
    /\ frames # <<>>
    /\ Len(frames) <= MaxDepth
    /\ Room(2)
    /\ queue' = Enqueue(queue, StartContainerCommand(NextSeq, frames[Len(frames)].region, ty))
    /\ frames' = Append(frames, [kind |-> "container", region |-> NextSeq, ty |-> ty, resp |-> resp])
    /\ UNCHANGED <<phase, pass, cursor, applied, ctxAvail, uiStack, cache, inits, counter, delivered, trace, sizes, meddling, active, calls>>

\* UiCommands::show after f has returned
UiShowReturn ==
    /\ phase = "build"
    /\ Len(frames) > 1
    /\ LET fr == frames[Len(frames)] IN
        /\ fr.kind = "container"
        /\ queue' = Enqueue(queue, EndContainerCommand(NextSeq, fr.region, frames[Len(frames) - 1].region, fr.ty, fr.resp))
    /\ frames' = SubSeq(frames, 1, Len(frames) - 1)
    /\ UNCHANGED <<phase, pass, cursor, applied, ctxAvail, uiStack, cache, inits, counter, delivered, trace, sizes, meddling, active, calls>>

\* the building system has returned: its queue is applied at the sync point
Flush ==
    /\ phase = "build"
    /\ frames = <<>>
    /\ phase' = "drain"
    /\ UNCHANGED <<pass, frames, queue, cursor, applied, ctxAvail, uiStack, cache, inits, counter, delivered, trace, sizes, meddling, active, calls>>

(* ------------------------- drain: Command::apply ----------------------- *)
\* an apply call has panicked: nothing after it is applied
Aborted == trace # <<>> /\ trace[Len(trace)].op = "panic"

Pending == phase = "drain" /\ cursor < Len(queue) /\ ~Aborted

Current == queue[cursor + 1]

\* the queue hands the command over and moves on
Taken ==
    /\ cursor' = cursor + 1
    /\ applied' = Append(applied, Current.seq)
    /\ UNCHANGED <<phase, pass, frames, queue, ctxAvail, delivered, sizes, meddling, active, calls>>

\* slip: the presence of the resource is not checked
ContainsStackUnchecked(us) == TRUE

\* slip: the test is inverted, the command goes on when the resource is missing
ContainsStackInverted(us) == ~us.some

\* World::contains_resource::<UiStack>()
ContainsStack(us) == us.some

\* slip: the stack is inserted before the context is looked up
StartRootNoCtxWorldInserted(us) == SomeStack(EmptyUiStack)

\* StartRootCommand::apply without a context: the early return leaves the World alone
StartRootNoCtxWorld(us) == us

\* StartRootCommand::apply with a context: a fresh stack holding the root's data
StartRootWorld(data) == SomeStack(Push(EmptyUiStack, data))

\* slip: the stack is borrowed (resource_scope) and put back after the pop
RemoveResourceKept(us) == SomeStack(PopRest(us.stack))

\* EndRootCommand::apply: World::remove_resource::<UiStack>() takes the stack out for good
RemoveResource(us) == NoStack

\* slip: the data of the new region is not pushed
StartContainerStackNoPush(s, data) == s

\* StartContainerCommand::apply: stack.push(this)
StartContainerStack(s, data) == Push(s, data)

\* slip: the top entry is read but left on the stack
EndContainerStackPeek(s) == s

\* EndContainerCommand::apply: stack.pop() takes the top entry off the stack
EndContainerStack(s) == PopRest(s)

\* slip: the parent is looked up before the region's own entry is popped
EndContainerParentBeforePop(s) == Top(s).region

\* EndContainerCommand::apply: stack.top_mut() after the pop is the parent
EndContainerParent(s) == Top(EndContainerStack(s)).region

\* slip: the result of the draw is dropped instead of handed to the responder
WidgetCallsNoRespond(c, top, res) == <<ConvertEvent(c), DrawEvent(c, top, res)>>

\* WidgetCommand::apply with a region on top: convert, draw, respond
WidgetCalls(c, top, res) == <<ConvertEvent(c), DrawEvent(c, top, res), RespondEvent(c, res)>>

\* slip: a missing stack is replaced by a default one (unwrap_or_default)
EndRootHasStackDefault(us) == TRUE

\* EndRootCommand::apply: World::remove_resource::<UiStack>() yields the stack, if any
EndRootHasStack(us) == us.some

\* slip: the depth is tested after the pop instead of before it
EndRootUnbalancedAfterPop(s) == StackLen(s) # 0

\* slip: only an empty stack counts as unbalanced
EndRootUnbalancedEmpty(s) == StackLen(s) = 0

\* EndRootCommand::apply: stack.len() != 1
EndRootUnbalanced(s) == StackLen(s) # 1

\* World::resource_scope panics when the World does not hold the resource
ResourceScopePanics(us) == ~us.some

\* slip: the callbacks are handed a World that still holds the stack
ScopedWorldShared(us) == us

\* World::resource_scope: the closure is handed a World the resource is taken out of
ScopedWorld(us) == NoStack

\* the callbacks handed &mut World that run code of the program: the
\* conversion of a cached system widget (into_widget(world) initialises the
\* program's system) and a system responder (Responder::respond(self, world,
\* response)); begin, end and draw are handed &World, the responder () and the
\* conversion of an egui widget run no code of the program
Mutators == {"convert", "respond"}

\* the conversion of the widget of command c, if it is handed &mut World
ConvertMut(c) == IF c.kind = "Widget" /\ c.wkind = "cached" THEN {"convert"} ELSE {}

\* the responder of command c, if it runs a system of the program
RespondMut(c) == IF c.resp = "system" THEN {"respond"} ELSE {}

\* how: "pop" tries to take the top entry off the UiStack found in the World,
\* "insert" does world.insert_resource(UiStack::default()); who: the
\* callbacks that do it
Meddlings ==
    {[how |-> h, who |-> w] : h \in {"pop", "insert"}, w \in (SUBSET Mutators) \ {{}}}

\* what the callbacks ran of one command do, taken together
Effective(med, ran) == IF med.who \cap ran # {} THEN med.how ELSE "none"

\* the World a callback leaves behind
Meddle(w, how) ==
    IF how = "insert" THEN SomeStack(EmptyUiStack)
    ELSE IF how = "pop" /\ w.some THEN SomeStack(PopRest(w.stack))
    ELSE w

\* the World at the end of the closure of World::resource_scope
LeftInScope(own, how) == Meddle(ScopedWorld(SomeStack(own)), how)

\* World::resource_scope after the closure:
\* assert!(!self.contains_resource::<R>()) fails when the resource was
\* inserted during the call
ScopeAssertFails(own, how) == LeftInScope(own, how).some

\* the calls made inside the scope, and the panic of the failing assertion
ScopeCalls(c, evs, own, how) ==
    IF ScopeAssertFails(own, how) THEN evs \o <<Panic(c)>> ELSE evs

\* World::resource_scope after the closure: the stack own of the command is put
\* back into the World; when the assertion fails the World keeps what the
\* callback inserted and own is dropped by the unwinding
AfterScope(own, how) ==
    IF ScopeAssertFails(own, how) THEN LeftInScope(own, how) ELSE SomeStack(own)

\* slip: the pop is untyped, only an empty stack makes it fail
EndContainerPopFailedEmptyOnly(s, ty) == ~HasTop(s)

\* EndContainerCommand::apply: the else branch of `let Some(this) = stack.pop()`
EndContainerPopFailed(s, ty) == ~PopYields(s, ty)

\* slip: the responder is handed the result a second time
EndContainerCallsTwice(c, data, parent, res) ==
    <<EndEvent(c, data, parent, res), RespondEvent(c, res), RespondEvent(c, res)>>

\* EndContainerCommand::apply with its data and a parent: end, then respond
EndContainerCalls(c, data, parent, res) ==
    <<EndEvent(c, data, parent, res), RespondEvent(c, res)>>

\* StartRootCommand::apply
ApplyStartRoot ==
    /\ Pending
    /\ Current.kind = "StartRoot"
    /\ Taken
    /\ UNCHANGED <<cache, inits, counter>>
    /\ IF ~ctxAvail
       THEN /\ trace' = Append(trace, Warn(Current, "No egui context found"))
            /\ uiStack' = StartRootNoCtxWorld(uiStack)
       ELSE /\ trace' = Append(trace, BeginEvent(Current, 0))
            /\ uiStack' = StartRootWorld(BeginData(Current, 0))

\* EndRootCommand::apply
ApplyEndRoot ==
    /\ Pending
    /\ Current.kind = "EndRoot"
    /\ Taken
    /\ UNCHANGED <<cache, inits, counter>>
    /\ IF ~EndRootHasStack(uiStack)
       THEN /\ trace' = Append(trace, Warn(Current, "No UiStack found"))
            /\ UNCHANGED uiStack
       ELSE LET s == uiStack.stack
                w1 == IF EndRootUnbalanced(s)
                      THEN <<Warn(Current, "Container was not ended")>> ELSE <<>>
            IN  /\ uiStack' = RemoveResource(uiStack)
                /\ IF ~PopYields(s, Current.ty)
                   THEN trace' = trace \o w1 \o <<Warn(Current, "No Root was started")>>
                   ELSE trace' = trace \o w1 \o <<EndEvent(Current, Top(s), 0, "none")>>

\* StartContainerCommand::apply
ApplyStartContainer ==
    /\ Pending
    /\ Current.kind = "StartContainer"
    /\ Taken
    /\ UNCHANGED <<cache, inits, counter>>
    /\ IF ~ContainsStack(uiStack)
       THEN /\ trace' = Append(trace, Warn(Current, "No UiStack found"))
            /\ UNCHANGED uiStack
       ELSE IF ResourceScopePanics(uiStack)
       THEN /\ trace' = Append(trace, Panic(Current))
            /\ UNCHANGED uiStack
       ELSE LET s == uiStack.stack IN
            IF ~HasTop(s)
            THEN /\ trace' = Append(trace, Warn(Current, "No parent Ui found"))
                 /\ UNCHANGED uiStack
            ELSE LET own == StartContainerStack(s, BeginData(Current, Top(s).region))
                     how == Effective(meddling, {})
                 IN  /\ trace' = trace \o ScopeCalls(Current,
                                         <<BeginEvent(Current, Top(s).region)>>, own, how)
                     /\ uiStack' = AfterScope(own, how)

\* EndContainerCommand::apply
ApplyEndContainer ==
    /\ Pending
    /\ Current.kind = "EndContainer"
    /\ Taken
    /\ IF ~ContainsStack(uiStack)
       THEN /\ trace' = Append(trace, Warn(Current, "No UiStack found"))
            /\ UNCHANGED <<uiStack, cache, inits, counter>>
       ELSE IF ResourceScopePanics(uiStack)
       THEN /\ trace' = Append(trace, Panic(Current))
            /\ UNCHANGED <<uiStack, cache, inits, counter>>
       ELSE LET s == uiStack.stack
                rest == EndContainerStack(s)
            IN  IF EndContainerPopFailed(s, Current.ty)
                THEN /\ trace' = Append(trace, Warn(Current, "No Container was started"))
                     /\ uiStack' = SomeStack(rest)
                     /\ UNCHANGED <<cache, inits, counter>>
                ELSE IF ~HasTop(rest)
                THEN /\ trace' = Append(trace, Warn(Current, "No parent Ui found"))
                     /\ uiStack' = SomeStack(rest)
                     /\ UNCHANGED <<cache, inits, counter>>
                ELSE \E res \in Responses :
                        /\ uiStack' = AfterScope(rest, Effective(meddling, RespondMut(Current)))
                        /\ InRange(counter, Current.resp, res)
                        /\ trace' = trace \o ScopeCalls(Current,
                                            EndContainerCalls(Current, Top(s),
                                                              EndContainerParent(s), res),
                                            rest, Effective(meddling, RespondMut(Current)))
                        /\ cache' = Respond(cache, Current.resp)
                        /\ inits' = RespondInits(inits, cache, Current.resp)
                        /\ counter' = RespondCounter(counter, Current.resp, res)

\* WidgetCommand::apply
ApplyWidget ==
    /\ Pending
    /\ Current.kind = "Widget"
    /\ Taken
    /\ IF ~ContainsStack(uiStack)
       THEN /\ trace' = Append(trace, Warn(Current, "No UiStack found"))
            /\ UNCHANGED <<uiStack, cache, inits, counter>>
       ELSE IF ResourceScopePanics(uiStack)
       THEN /\ trace' = Append(trace, Panic(Current))
            /\ UNCHANGED <<uiStack, cache, inits, counter>>
       ELSE LET s == uiStack.stack
                converted == IntoWidget(cache, Current.wkind)
                convertedInits == IntoWidgetInits(inits, cache, Current.wkind)
            IN  IF ~HasTop(s)
                THEN LET how == Effective(meddling, ConvertMut(Current)) IN
                     /\ trace' = trace \o ScopeCalls(Current,
                                    <<ConvertEvent(Current), Warn(Current, "No Ui found")>>,
                                    s, how)
                     /\ uiStack' = AfterScope(s, how)
                     /\ cache' = converted
                     /\ inits' = convertedInits
                     /\ UNCHANGED counter
                ELSE \E res \in Responses :
                     LET how == Effective(meddling, ConvertMut(Current) \cup RespondMut(Current)) IN
                     /\ uiStack' = AfterScope(s, how)
                     /\ InRange(counter, Current.resp, res)
                     /\ trace' = trace \o ScopeCalls(Current,
                                         WidgetCalls(Current, Top(s).region, res), s, how)
                     /\ cache' = Respond(converted, Current.resp)
                     /\ inits' = RespondInits(convertedInits, converted, Current.resp)
                     /\ counter' = RespondCounter(counter, Current.resp, res)

\* the whole queue has been applied
Drained == phase = "drain" /\ cursor = Len(queue)

\* number of activations ("clicked") the responder system was handed in the calls tr
Activations(tr) ==
    Cardinality({i \in 1..Len(tr) :
        tr[i].op = "respond" /\ tr[i].resp = "system" /\ tr[i].res = "clicked"})

\* the next frame: the building system runs again with an empty queue
NewPass ==
    /\ Drained
    /\ pass < MaxPasses
    /\ pass' = pass + 1
    /\ phase' = "build"
    /\ queue' = <<>>
    /\ cursor' = 0
    /\ applied' = <<>>
    /\ trace' = <<>>
    /\ delivered' = delivered + Activations(trace)
    /\ ctxAvail' \in BOOLEAN
    /\ UNCHANGED <<frames, uiStack, cache, inits, counter, sizes, meddling, active, calls>>

Build ==
    \/ \E ty \in DataTypes : RootShowEnter(ty)
    \/ RootShowReturn
    \/ \E wk \in WidgetKinds, r \in ResponderKinds : UiAdd(wk, r)
    \/ \E ty \in DataTypes, r \in ResponderKinds : UiShowEnter(ty, r)
    \/ UiShowReturn
    \/ Flush

Drain ==
    \/ ApplyStartRoot
    \/ ApplyEndRoot
    \/ ApplyStartContainer
    \/ ApplyEndContainer
    \/ ApplyWidget

Next == Build \/ Drain \/ NewPass

Spec == Init /\ [][Next]_vars

(* -------------- drain of an arbitrary command sequence ------------------ *)
\* the five command kinds with every choice of their type parameters
RawShapes ==
    {StartRootCommand(0, ty) : ty \in DataTypes}
    \cup {EndRootCommand(0, 0, ty) : ty \in DataTypes}
    \cup {StartContainerCommand(0, 0, ty) : ty \in DataTypes}
    \cup {EndContainerCommand(0, 0, 0, ty, r) : ty \in DataTypes, r \in ResponderKinds}
    \cup {WidgetCommand(0, 0, wk, r) : wk \in WidgetKinds, r \in ResponderKinds}

\* the open kind whose into_root / into_container pair yields the close kind k
OpenKindOf(k) == IF k = "EndRoot" THEN "StartRoot" ELSE "StartContainer"

\* the queued opens whose second half (same Data type) has not been queued yet;
\* 0 stands for a close whose first half was never queued
Partners(c) ==
    {0} \cup {i \in 1..Len(queue) :
                /\ queue[i].kind = OpenKindOf(c.kind)
                /\ queue[i].ty = c.ty
                /\ \A j \in 1..Len(queue) : ~(IsClose(queue[j]) /\ queue[j].region = i)}

\* the command c as the n-th command queued, closing region p when it is a close
Stamp(c, n, p) ==
    [c EXCEPT !.seq = n,
              !.region = IF IsOpen(c) THEN n ELSE IF IsClose(c) THEN p ELSE 0]

\* Commands::queue called directly with one of the command structs
QueueRaw(c) ==
    /\ phase = "build"
    /\ frames = <<>>
    /\ Len(queue) < MaxRaw
    /\ \E p \in (IF IsClose(c) THEN Partners(c) ELSE {0}) :
        queue' = Enqueue(queue, Stamp(c, NextSeq, p))
    /\ UNCHANGED <<phase, pass, frames, cursor, applied, ctxAvail, uiStack, cache, inits, counter, delivered, trace, sizes, meddling, active, calls>>

NextRaw ==
    \/ \E c \in RawShapes : QueueRaw(c)
    \/ Flush
    \/ Drain

SpecRaw == Init /\ [][NextRaw]_vars

(* ------- drain of command sequences that never close a container -------- *)
\* the commands of a script whose show closures never return to queue their close
UnclosedShapes == {c \in RawShapes : c.kind \in {"StartRoot", "StartContainer", "EndRoot"}}

\* Commands::queue called directly with an open or a top-level close
QueueUnclosed(c) ==
    /\ phase = "build"
    /\ frames = <<>>
    /\ Len(queue) < MaxUnclosed
    /\ \E p \in (IF IsClose(c) THEN Partners(c) ELSE {0}) :
        queue' = Enqueue(queue, Stamp(c, NextSeq, p))
    /\ UNCHANGED <<phase, pass, frames, cursor, applied, ctxAvail, uiStack, cache, inits, counter, delivered, trace, sizes, meddling, active, calls>>

NextUnclosed ==
    \/ \E c \in UnclosedShapes : QueueUnclosed(c)
    \/ Flush
    \/ ApplyStartRoot
    \/ ApplyStartContainer
    \/ ApplyEndRoot

SpecUnclosed == Init /\ [][NextUnclosed]_vars

(* ------ a program whose definitions and callbacks are chosen first ------ *)
\* size_of of a system definition: a function item or a closure without
\* captures has size 0, a function pointer or a capturing closure has not
UnitSizes == {0, 8}

\* slip: the size of the definition is not asserted
ConstAssertSkipped(sz) == TRUE

\* IntoResponder::into_responder: const { assert!(size_of::<S>() == 0) }
ConstAssert(sz) == sz = 0

\* the source of the program: the sizes of its system definitions are any,
\* its callbacks meddle with the UiStack
InitProgram ==
    /\ phase = "compile"
    /\ pass = 1
    /\ frames = <<>>
    /\ queue = <<>>
    /\ cursor = 0
    /\ applied = <<>>
    /\ ctxAvail \in BOOLEAN
    /\ uiStack = NoStack
    /\ cache = {}
    /\ inits = [k \in Units |-> 0]
    /\ counter = 0
    /\ delivered = 0
    /\ trace = <<>>
    /\ sizes \in [Units -> UnitSizes]
    /\ meddling \in Meddlings
    /\ active = <<>>
    /\ calls = <<>>

\* the build of the program: a failing const assertion stops it for good
Compile ==
    /\ phase = "compile"
    /\ phase' = IF \A k \in Units : ConstAssert(sizes[k]) THEN "build" ELSE "rejected"
    /\ UNCHANGED <<pass, frames, queue, cursor, applied, ctxAvail, uiStack, cache, inits, counter, delivered, trace, sizes, meddling, active, calls>>

NextProgram ==
    \/ Compile
    \/ \E c \in RawShapes : QueueRaw(c)
    \/ Flush
    \/ Drain

SpecProgram == InitProgram /\ [][NextProgram]_vars

(* ---------- the immediate-mode surface: WorldUi called directly --------- *)
\* egui widgets handed to WorldUi::add
EguiWidgets == {"label", "button"}

\* values passed as extra input (simple.rs passes 5)
Extras == {0, 5}

\* run_cached hands the system the Ui alone; <<x>> is the extra value x
NoExtra == <<>>

\* the region the render system draws in (simple.rs: the CentralPanel)
DirectRegion == 1

\* which elements of the tuple ws report a click in their Response
Clicks(ws) == [1..Len(ws) -> BOOLEAN]

\* tuples of at most MaxTuple widgets, the empty tuple included
TupleShapes == UNION {[1..n -> EguiWidgets] : n \in 0..MaxTuple}

\* IntoWidget for an egui::Widget: EguiWidget(self)
EguiWidget(w) == [egui |-> w]

\* IntoWidget for a tuple: (w1.into_widget(), ..., wn.into_widget())
IntoWidgetTuple(ws) == [i \in 1..Len(ws) |-> EguiWidget(ws[i])]

\* EguiWidget::draw: ui.ui_mut().add(self.0), the Response of the widget
\* handed back as it is
EguiWidgetDraw(w, region, click, tick) ==
    [widget |-> w.egui, region |-> region, tick |-> tick,
     res |-> IF click THEN "clicked" ELSE "idle"]

\* slip: the elements after the first are drawn before it
TupleOrderRestFirst(first, rest) == rest \o <<first>>

\* the operands of a tuple expression are evaluated from left to right
TupleOrder(first, rest) == <<first>> \o rest

RECURSIVE DrawTuple(_, _, _, _)
\* Widget::draw of a tuple: ($($name.draw(ui.reborrow()),)*); draws: the
\* draw calls in the order they are made, out: the tuple handed back
DrawTuple(ws, region, clicks, pos) ==
    IF pos > Len(ws) THEN [draws |-> <<>>, out |-> <<>>]
    ELSE LET d == EguiWidgetDraw(ws[pos], region, clicks[pos], pos)
             rest == DrawTuple(ws, region, clicks, pos + 1)
         IN  [draws |-> TupleOrder(d, rest.draws), out |-> <<d.res>> \o rest.out]

\* the immediate-mode surface is in use: the render system runs with a
\* context and nothing is queued
Direct == phase = "build" /\ ctxAvail /\ queue = <<>> /\ frames = <<>>

\* ordinal of the next call: every call made is running or finished
NextCall == Len(calls) + Len(active) + 1

\* WorldUi::add of a tuple of egui widgets
WorldUiAdd(ws, region, clicks) ==
    /\ Direct
    /\ active = <<>>
    /\ Len(calls) < MaxCalls
    /\ Len(SelectSeq(calls, LAMBDA r : r.kind = "add")) < MaxAdds
    /\ LET drawn == DrawTuple(IntoWidgetTuple(ws), region, clicks, 1)
       IN  calls' = Append(calls, [kind |-> "add", id |-> NextCall, widgets |-> ws,
                                   region |-> region, clicks |-> clicks,
                                   draws |-> drawn.draws, out |-> drawn.out])
    /\ UNCHANGED <<phase, pass, frames, queue, cursor, applied, ctxAvail, uiStack, cache, inits, counter, delivered, trace, sizes, meddling, active>>

\* simple.rs: if ui.add(Button::new(..)).clicked() { counter.0 += 1 }
AddButton(click) ==
    /\ Direct
    /\ active = <<>>
    /\ Len(calls) < MaxCalls
    /\ click => counter < MaxCount
    /\ LET d == EguiWidgetDraw(EguiWidget("button"), DirectRegion, click, 1)
       IN  /\ calls' = Append(calls, [kind |-> "button", id |-> NextCall, res |-> d.res])
           /\ counter' = ResponderSystem(counter, d.res)
    /\ UNCHANGED <<phase, pass, frames, queue, cursor, applied, ctxAvail, uiStack, cache, inits, delivered, trace, sizes, meddling, active>>

\* slip: the system is handed the default extra value
DrawNewDefault(region, extra) == [ui |-> region, extra |-> <<0>>]

\* Draw::new(ui, extra)
DrawNew(region, extra) == [ui |-> region, extra |-> extra]

\* the invocation of unit k that is still running, if any (0: none)
Running(k) ==
    IF \E i \in 1..Len(active) : active[i].unit = k
    THEN active[CHOOSE i \in 1..Len(active) :
                    /\ active[i].unit = k
                    /\ \A j \in 1..Len(active) : active[j].unit = k => j <= i].id
    ELSE 0

\* what World::run_system_cached_with makes of a call for a system that is
\* running: RegisteredSystemError::Recursive (ok: FALSE in the log), or a new instance of the system
\* run inside the running one, depending on the version of bevy_ecs
ReentrantOutcomes == {"recursive", "nested"}

\* World::run_system_cached_with up to the body of the system
RunEnter(k, passed, input) ==
    /\ Direct
    /\ Len(calls) + Len(active) < MaxCalls
    /\ Len(active) < MaxNest
    /\ LET fr == [id |-> NextCall, unit |-> k, passed |-> passed, extra |-> input.extra,
                  during |-> Running(k)]
       IN  IF Running(k) = 0
           THEN /\ active' = Append(active, fr)
                /\ cache' = RunSystemCached(cache, k)
                /\ inits' = RunSystemCachedInits(inits, cache, k)
                /\ UNCHANGED calls
           ELSE \E o \in ReentrantOutcomes :
                IF o = "recursive"
                THEN /\ calls' = Append(calls, [kind |-> "run", id |-> fr.id, unit |-> k,
                                                passed |-> passed, got |-> NoExtra,
                                                seen |-> counter, out |-> 0,
                                                during |-> fr.during, ok |-> FALSE])
                     /\ UNCHANGED <<active, cache, inits>>
                ELSE /\ active' = Append(active, fr)
                     /\ inits' = [inits EXCEPT ![k] = @ + 1]
                     /\ UNCHANGED <<calls, cache>>
    /\ UNCHANGED <<phase, pass, frames, queue, cursor, applied, ctxAvail, uiStack, counter, delivered, trace, sizes, meddling>>

\* WorldUi::run_cached
RunCached(k) == RunEnter(k, NoExtra, [ui |-> DirectRegion, extra |-> NoExtra])

\* WorldUi::run_cached_with
RunCachedWith(k, extra) == RunEnter(k, <<extra>>, DrawNew(DirectRegion, <<extra>>))

\* simple.rs my_widget / my_widget_with_data: the label shows counter.0, with
\* the extra data added
Body(cnt, extra) == IF extra = NoExtra THEN cnt ELSE cnt + extra[1]

\* the body of the innermost running system returns
RunReturn ==
    /\ Direct
    /\ active # <<>>
    /\ LET fr == active[Len(active)]
       IN  calls' = Append(calls, [kind |-> "run", id |-> fr.id, unit |-> fr.unit,
                                   passed |-> fr.passed, got |-> fr.extra,
                                   seen |-> counter, out |-> Body(counter, fr.extra),
                                   during |-> fr.during, ok |-> TRUE])
    /\ active' = SubSeq(active, 1, Len(active) - 1)
    /\ UNCHANGED <<phase, pass, frames, queue, cursor, applied, ctxAvail, uiStack, cache, inits, counter, delivered, trace, sizes, meddling>>

NextDirect ==
    \/ \E ws \in TupleShapes : \E cl \in Clicks(ws) : WorldUiAdd(ws, DirectRegion, cl)
    \/ \E click \in BOOLEAN : AddButton(click)
    \/ \E k \in Units : RunCached(k)
    \/ \E k \in Units, x \in Extras : RunCachedWith(k, x)
    \/ RunReturn

SpecDirect == Init /\ [][NextDirect]_vars

(* ============================ properties =============================== *)
\* positions of the trace holding a call of kind op
Calls(op) == {i \in 1..Len(trace) : trace[i].op = op}

\* number of opens minus number of closes among the first n commands of the queue
RECURSIVE Balance(_)
Balance(n) ==
    IF n = 0 THEN 0
    ELSE Balance(n - 1) + (IF IsOpen(queue[n]) THEN 1 ELSE IF IsClose(queue[n]) THEN -1 ELSE 0)

\* depth of the Region Stack in the World (no stack: 0)
Depth == IF uiStack.some THEN StackLen(uiStack.stack) ELSE 0

\* the kinds of the queued commands
Kinds == {queue[i].kind : i \in 1..Len(queue)}

(* ---- C1 ---- *)
\* C1: with a rendering context, while a script built with the verbs drains the
\* depth of the Region Stack is the number of opens minus the number of closes
\* applied so far, so that once the whole script is drained the stack is back at
\* its depth from before the script: no stack, depth 0.
C1_DepthRestored ==
    (phase = "drain" /\ ctxAvail) =>
        /\ Depth = Balance(cursor)
        /\ Drained => (uiStack = NoStack /\ Depth = 0)

\* a drained script that went two regions deep
C1_Witness ==
    /\ Drained
    /\ ctxAvail
    /\ \E i \in Calls("begin") : trace[i].parent # 0
    /\ \E i \in Calls("end") : trace[i].parent = 0

(* ---- C2 ---- *)
\* C2: the queue holds the commands in enqueue order, and draining applies
\* them one at a time from the front: the k-th command applied is the k-th
\* command enqueued, each is applied once, and the calls one command makes are
\* all made before the first call of the next command.
C2_Fifo ==
    /\ \A i \in 1..Len(queue) : queue[i].seq = i
    /\ Len(applied) = cursor
    /\ \A i \in 1..Len(applied) : applied[i] = i
    /\ \A i \in 1..(Len(trace) - 1) : trace[i].cmd <= trace[i + 1].cmd
    /\ {trace[i].cmd : i \in 1..Len(trace)} = 1..cursor

\* a script of at least four commands has been drained with a context
C2_Witness ==
    /\ Drained
    /\ ctxAvail
    /\ Len(queue) >= 4
    /\ Len(applied) = Len(queue)

(* ---- C3 ---- *)
\* the close commands of the log that close region r
ClosesOf(r) == {j \in 1..Len(queue) : IsClose(queue[j]) /\ queue[j].region = r}

\* C3: in the command log the verbs build, the open command of a region comes
\* before every command its build function enqueued and no close of the region
\* comes before them; once every show call has returned, each region has
\* exactly one close command (of the kind and Data type of its open), and it
\* comes after all the commands of its build function.  As the open and the
\* close of a nested container are themselves commands of the enclosing build
\* function, this holds at every depth.
C3_OpenChildrenClose ==
    phase = "build" =>
        /\ \A i \in 1..Len(queue) :
            queue[i].owner # 0 =>
                /\ \E j \in 1..(i - 1) : IsOpen(queue[j]) /\ queue[j].region = queue[i].owner
                /\ \A j \in ClosesOf(queue[i].owner) : j > i
                /\ frames = <<>> => ClosesOf(queue[i].owner) # {}
        /\ \A i \in 1..Len(queue) :
            (IsOpen(queue[i]) /\ frames = <<>>) =>
                /\ Cardinality(ClosesOf(queue[i].region)) = 1
                /\ \A j \in ClosesOf(queue[i].region) :
                    /\ j > i
                    /\ queue[j].kind = (IF queue[i].kind = "StartRoot"
                                        THEN "EndRoot" ELSE "EndContainer")
                    /\ queue[j].ty = queue[i].ty
                    /\ queue[j].owner = queue[i].owner

\* a complete log with a widget inside a container inside a root
C3_Witness ==
    /\ phase = "build"
    /\ frames = <<>>
    /\ \E i, j \in 1..Len(queue) :
        /\ queue[i].kind = "Widget"
        /\ queue[j].kind = "StartContainer"
        /\ queue[i].owner = queue[j].region
        /\ queue[j].owner # 0

(* ---- C4 ---- *)
\* the widget results handed to responders, in delivery order
WidgetDeliveries == SelectSeq(trace, LAMBDA e : e.op = "respond" /\ e.from = "Widget")

\* C4: widget results reach their responders in the enqueue order of their
\* add-widget commands, each result being the one its own draw produced; with
\* a rendering context every add-widget command of a drained script has
\* delivered its result.
C4_DeliveryOrder ==
    LET d == WidgetDeliveries IN
    /\ \A i \in 1..(Len(d) - 1) : d[i].cmd < d[i + 1].cmd
    /\ \A i \in Calls("respond") :
        trace[i].from = "Widget" =>
            /\ trace[i - 1].op = "draw"
            /\ trace[i - 1].cmd = trace[i].cmd
            /\ trace[i - 1].res = trace[i].res
    /\ (Drained /\ ctxAvail) =>
        {d[i].cmd : i \in 1..Len(d)}
            = {queue[i].seq : i \in {k \in 1..Len(queue) : queue[k].kind = "Widget"}}

\* two widgets have been drawn and both results delivered
C4_Witness ==
    /\ Drained
    /\ Len(WidgetDeliveries) >= 2

(* ---- C5 ---- *)
\* C5: every end made by a close-container command receives the teardown data
\* that the begin of the same region pushed, and is given as parent the region
\* that was the parent at that begin.
C5_OwnTeardownData ==
    \A i \in Calls("end") :
        trace[i].parent # 0 =>
            /\ trace[i].data.region = trace[i].region
            /\ trace[i].data.parent = trace[i].parent
            /\ \E j \in 1..(i - 1) :
                /\ trace[j].op = "begin"
                /\ trace[j].region = trace[i].region
                /\ trace[j].parent = trace[i].parent

\* a container has been closed whose teardown data has the Data type of the
\* root it lies in, so that the type alone does not tell the two entries apart
C5_Witness ==
    \E i \in Calls("end") :
        /\ trace[i].parent # 0
        /\ \E n \in 1..Len(queue) :
            /\ queue[n].kind = "StartRoot"
            /\ queue[n].region = trace[i].parent
            /\ queue[n].ty = trace[i].data.ty

(* ---- C6 ---- *)
\* every open command of the queue has its close command in the queue
AllOpensClosed ==
    \A i \in 1..Len(queue) :
        IsOpen(queue[i]) =>
            \E j \in 1..Len(queue) : IsClose(queue[j]) /\ queue[j].region = queue[i].region

\* ends run on the teardown data that the begin of region r produced
EndsOf(r) == {j \in Calls("end") : trace[j].data.region = r}

\* C6: once a script in which every open has its close is drained, every
\* region whose begin ran has had an end run exactly once on the teardown data
\* that begin produced: no opened region is dropped without end, whatever the
\* other commands of the script reported.
C6_EveryBeginEnded ==
    (Drained /\ AllOpensClosed) =>
        \A i \in Calls("begin") : Cardinality(EndsOf(trace[i].region)) = 1

(* ---- C7 ---- *)
\* no open-top-level command has been applied yet, or no close-top-level
\* command is left to apply
BetweenScripts ==
    \/ phase = "build"
    \/ \A i \in 1..cursor : queue[i].kind # "StartRoot"
    \/ \A i \in (cursor + 1)..Len(queue) : queue[i].kind # "EndRoot"

\* C7: the World holds at most one UiStack resource; it comes into being only
\* when an open-top-level command is applied with a rendering context, it is
\* taken away only by a close-top-level command, and between scripts there is
\* none.
C7_StackLifetime ==
    /\ [](BetweenScripts => uiStack = NoStack)
    /\ [][(~uiStack.some /\ uiStack'.some) =>
            (Pending /\ Current.kind = "StartRoot" /\ ctxAvail)]_vars
    /\ [][(uiStack.some /\ ~uiStack'.some) => (Pending /\ Current.kind = "EndRoot")]_vars

\* one script has opened and closed two top-level regions
C7_Witness ==
    /\ Drained
    /\ ~uiStack.some
    /\ Cardinality({i \in Calls("begin") : trace[i].parent = 0}) >= 2
    /\ Cardinality({i \in Calls("end") : trace[i].parent = 0}) >= 2

(* ---- C8 ---- *)
\* the diagnostic of a command that finds nothing to work on
MissingMsg(c) == IF c.kind = "StartRoot" THEN "No egui context found" ELSE "No UiStack found"

\* C8: without a rendering context an open-top-level command only reports
\* "No egui context found" and creates no stack, and every other command of the
\* script only reports the missing stack: the calls of the pass are one warning
\* per applied command, and neither the stack nor the cached systems change.
C8_NoContextNoOps ==
    /\ []((phase = "drain" /\ ~ctxAvail) =>
            /\ uiStack = NoStack
            /\ Len(trace) = cursor
            /\ \A i \in 1..cursor : trace[i] = Warn(queue[i], MissingMsg(queue[i])))
    /\ [][(Pending /\ ~ctxAvail) => (uiStack' = uiStack /\ cache' = cache)]_vars

\* a script with all five kinds of command has been drained without a context
C8_Witness ==
    /\ Drained
    /\ ~ctxAvail
    /\ queue # <<>>
    /\ queue[1].kind = "StartRoot"
    /\ Kinds = {"StartRoot", "EndRoot", "StartContainer", "EndContainer", "Widget"}

(* ---- C9 ---- *)
\* C9: an open-container, close-container or add-widget command applied to a
\* World without UiStack reports "No UiStack found" and does nothing else: the
\* World (stack, cached systems) is unchanged and no begin, end, conversion,
\* draw or responder is called.
C9_MissingStackNoOp ==
    [][(Pending /\ ~uiStack.some /\ Current.kind \in {"StartContainer", "EndContainer", "Widget"}) =>
        /\ uiStack' = uiStack
        /\ cache' = cache
        /\ trace' = Append(trace, Warn(Current, "No UiStack found"))]_vars

\* each of the three kinds of command has reported the missing stack
C9_Witness ==
    \A k \in {"StartContainer", "EndContainer", "Widget"} :
        \E i \in Calls("warn") :
            /\ trace[i].msg = "No UiStack found"
            /\ \E n \in 1..Len(queue) : queue[n].seq = trace[i].cmd /\ queue[n].kind = k

(* ---- C10 ---- *)
\* C10: a close-container command applied to a UiStack that holds at most the
\* entry of the top-level region only reports: the stack has the same entries
\* afterwards and neither end nor the responder is called.
C10_CloseWithoutContainerNoOp ==
    [][(Pending /\ Current.kind = "EndContainer" /\ uiStack.some
            /\ StackLen(uiStack.stack) <= 1) =>
        /\ uiStack' = uiStack
        /\ Len(trace') > Len(trace)
        /\ \A i \in (Len(trace) + 1)..Len(trace') : trace'[i].op = "warn"]_vars

(* ---- C11 ---- *)
\* the calls made after the first n calls of the next state's trace
NewCalls == {i \in (Len(trace) + 1)..Len(trace') : TRUE}

\* C11: a close-top-level command applied to a UiStack whose depth is not 1
\* reports "Container was not ended", takes the stack resource out of the World
\* and, when the stack holds the root's entry (its bottom entry), runs end on
\* that entry.
C11_UnbalancedCloseFinalisesRoot ==
    [][(Pending /\ Current.kind = "EndRoot" /\ uiStack.some
            /\ StackLen(uiStack.stack) # 1) =>
        /\ \E i \in NewCalls : trace'[i] = Warn(Current, "Container was not ended")
        /\ ~uiStack'.some
        /\ StackLen(uiStack.stack) > 1 =>
            \E i \in NewCalls : trace'[i].op = "end" /\ trace'[i].data = uiStack.stack[1]]_vars

(* ---- C12 ---- *)
\* the kinds of the queued commands, in queue order
KindSeq == [i \in 1..Len(queue) |-> queue[i].kind]

\* the "unbalanced nesting" diagnostics of this pass
UnbalancedWarns == {i \in Calls("warn") : trace[i].msg = "Container was not ended"}

\* the "missing stack" diagnostics of this pass
MissingStackWarns == {i \in Calls("warn") : trace[i].msg = "No UiStack found"}

\* C12 as stated: draining open-container, open-container, close-top-level
\* yields exactly one "Container was not ended" diagnostic and depth 0.
C12_ScenarioD ==
    (Drained /\ KindSeq = <<"StartContainer", "StartContainer", "EndRoot">>) =>
        Cardinality(UnbalancedWarns) = 1 /\ Depth = 0

\* C12 amended: inside a top-level region opened with a context, two nested
\* open-container commands left unclosed make the close-top-level command
\* report exactly one "Container was not ended" and leave no stack (depth 0);
\* the three commands without the open-top-level each report "No UiStack
\* found" and none reports "Container was not ended".
C12_ScenarioDInRoot ==
    /\ (Drained /\ ctxAvail
            /\ KindSeq = <<"StartRoot", "StartContainer", "StartContainer", "EndRoot">>) =>
        Cardinality(UnbalancedWarns) = 1 /\ ~uiStack.some /\ Depth = 0
    /\ (Drained /\ KindSeq = <<"StartContainer", "StartContainer", "EndRoot">>) =>
        /\ Cardinality(UnbalancedWarns) = 0
        /\ Cardinality(MissingStackWarns) = 3
        /\ Depth = 0

\* the unbalanced script has been drained inside an opened root
C12_Witness ==
    /\ Drained
    /\ ctxAvail
    /\ KindSeq = <<"StartRoot", "StartContainer", "StartContainer", "EndRoot">>
    /\ Cardinality(Calls("begin")) = 3
    /\ Cardinality(UnbalancedWarns) = 1

(* ---- C13 ---- *)
\* the calls made by the n-th command of the queue
CallsOf(n) == SelectSeq(trace, LAMBDA e : e.cmd = queue[n].seq)

\* C13: a close-top-level command with no open-top-level before it in the
\* script makes exactly one call, the report "No UiStack found": no panic, no
\* end, no responder; the World still has no stack.
C13_CloseWithoutOpen ==
    /\ ~Aborted
    /\ \A n \in 1..cursor :
        (queue[n].kind = "EndRoot" /\ \A m \in 1..(n - 1) : queue[m].kind # "StartRoot") =>
            CallsOf(n) = <<Warn(queue[n], "No UiStack found")>>
    /\ (Drained /\ KindSeq = <<"EndRoot">>) =>
        trace = <<Warn(queue[1], "No UiStack found")>> /\ uiStack = NoStack

\* the lone close-top-level command has been drained
C13_Witness ==
    /\ Drained
    /\ KindSeq = <<"EndRoot">>
    /\ Cardinality(MissingStackWarns) = 1

(* ---- C14 ---- *)
\* the call a command of kind k is there to make
Job(k) ==
    IF k \in {"StartRoot", "StartContainer"} THEN "begin"
    ELSE IF k \in {"EndRoot", "EndContainer"} THEN "end" ELSE "draw"

\* the n-th command of the queue has made a call of kind op
Made(n, op) == \E i \in 1..Len(trace) : trace[i].cmd = queue[n].seq /\ trace[i].op = op

\* C14: whatever the command sequence and whether or not a context exists, no
\* apply call panics; every applied command either made the call it is there
\* to make (begin, end, draw) or reported a diagnostic; and while commands are
\* left the next one can be applied.
C14_DrainNeverAborts ==
    /\ ~Aborted
    /\ Len(applied) = cursor
    /\ \A n \in 1..cursor : Made(n, Job(queue[n].kind)) \/ Made(n, "warn")
    /\ (phase = "drain" /\ cursor < Len(queue)) => Pending

\* more pops than pushes: two close-container commands after one open-top-level
C14_Witness ==
    /\ Drained
    /\ ctxAvail
    /\ KindSeq = <<"StartRoot", "EndContainer", "EndContainer">>
    /\ Made(2, "warn")
    /\ Made(3, "warn")

(* ---- C15 ---- *)
\* a close-container command queued without an open-container of its own
StrayClose(c) == c.kind = "EndContainer" /\ c.region = 0

\* the commands from the n-th on form a well-nested script once the stray
\* close-container commands, all met at depth 1, are left out; open: the
\* regions open before the n-th command
RECURSIVE WellNestedBut(_, _)
WellNestedBut(n, open) ==
    IF n > Len(queue) THEN open = <<>>
    ELSE LET c == queue[n]
             inner == SubSeq(open, 1, Len(open) - 1)
         IN  IF StrayClose(c) THEN Len(open) = 1 /\ WellNestedBut(n + 1, open)
             ELSE IF c.kind = "StartRoot" THEN open = <<>> /\ WellNestedBut(n + 1, <<c.seq>>)
             ELSE IF c.kind = "StartContainer"
                  THEN open # <<>> /\ WellNestedBut(n + 1, Append(open, c.seq))
             ELSE IF c.kind = "Widget" THEN open # <<>> /\ WellNestedBut(n + 1, open)
             ELSE IF c.kind = "EndContainer"
                  THEN Len(open) > 1 /\ c.region = open[Len(open)] /\ WellNestedBut(n + 1, inner)
             ELSE Len(open) = 1 /\ c.region = open[1] /\ WellNestedBut(n + 1, <<>>)

\* C15: in a script that is well nested but for stray close-container commands
\* at depth 1, drained with a context, every other command does what it does
\* in the script without them: it makes its begin, draw or end call and
\* reports nothing, and the drain ends without a stack.
C15_StrayCloseHarmless ==
    (Drained /\ ctxAvail /\ WellNestedBut(1, <<>>)) =>
        /\ ~uiStack.some
        /\ \A n \in 1..Len(queue) :
            ~StrayClose(queue[n]) => Made(n, Job(queue[n].kind)) /\ ~Made(n, "warn")

(* ---- C16 ---- *)
\* C16: a close command whose typed pop finds the stack empty, or its top entry
\* of another type than the command's, only reports: it makes at least one
\* call, all its calls are diagnostics (no end, no responder, no panic), and
\* the Counter and the cached systems are untouched.
C16_FailedPopReports ==
    [][(Pending /\ IsClose(Current) /\ uiStack.some
            /\ (uiStack.stack = <<>> \/ Top(uiStack.stack).ty # Current.ty)) =>
        /\ Len(trace') > Len(trace)
        /\ \A i \in NewCalls : trace'[i].op = "warn" /\ trace'[i].cmd = Current.seq
        /\ counter' = counter
        /\ cache' = cache]_vars

\* a close-container command has met an open container of another type
C16_Witness ==
    /\ Drained
    /\ ctxAvail
    /\ KindSeq = <<"StartRoot", "StartContainer", "EndContainer">>
    /\ queue[2].ty # queue[3].ty
    /\ CallsOf(3) = <<Warn(queue[3], "No Container was started")>>

(* ---- C17 ---- *)
\* the n-th command has produced a result: a widget drawn, a container ended
Produced(n) ==
    \/ queue[n].kind = "Widget" /\ Made(n, "draw")
    \/ queue[n].kind = "EndContainer" /\ Made(n, "end")

\* C17: a command that draws its widget or ends its container calls its
\* responder exactly once, right after the draw / end and with the result of
\* that call; every other command (the reporting ones included) never calls it.
C17_RespondOncePerResult ==
    \A n \in 1..cursor :
        LET cs == CallsOf(n)
            rs == {i \in 1..Len(cs) : cs[i].op = "respond"}
        IN  IF Produced(n)
            THEN /\ Cardinality(rs) = 1
                 /\ \A i \in rs :
                     /\ i > 1
                     /\ cs[i - 1].op = Job(queue[n].kind)
                     /\ cs[i].res = cs[i - 1].res
                     /\ cs[i].resp = queue[n].resp
                 /\ ~Made(n, "warn")
            ELSE rs = {}

\* a widget has been drawn and has handed "clicked" to its responder; the
\* close-container command after it has found no container and only reported
C17_Witness ==
    /\ Drained
    /\ ctxAvail
    /\ KindSeq = <<"StartRoot", "Widget", "EndContainer">>
    /\ \E i \in Calls("respond") : trace[i].cmd = 2 /\ trace[i].res = "clicked"
    /\ Made(3, "warn")

(* ---- C18 ---- *)
\* the step applies a command that hands a result to its responder
Delivers == Len(trace') > Len(trace) /\ trace'[Len(trace')].op = "respond"

\* C18: a step that hands a result to a SystemResponder changes the Counter as
\* the responder system does on that result as input (plus one on "clicked",
\* nothing otherwise) and leaves the system cached; a step that hands it to
\* the unit responder leaves the Counter and the responder system's
\* registration as they were; no other step changes the Counter.
C18_ResponderEffect ==
    [][IF Delivers
       THEN LET e == trace'[Len(trace')] IN
            IF e.resp = "system"
            THEN /\ counter' = counter + (IF e.res = "clicked" THEN 1 ELSE 0)
                 /\ ResponderUnit \in cache'
            ELSE /\ counter' = counter
                 /\ (ResponderUnit \in cache') = (ResponderUnit \in cache)
                 /\ inits'[ResponderUnit] = inits[ResponderUnit]
       ELSE counter' = counter]_vars

\* "clicked" has been handed to the unit responder and to a SystemResponder
C18_Witness ==
    /\ counter = 1
    /\ \E i, j \in Calls("respond") :
        /\ trace[i].resp = "unit" /\ trace[i].res = "clicked"
        /\ trace[j].resp = "system" /\ trace[j].res = "clicked"

(* ---- C19 ---- *)
\* Scenario B inside a top-level region: a container holding one widget whose
\* responder is the counting system
ScenarioB ==
    /\ KindSeq = <<"StartRoot", "StartContainer", "Widget", "EndContainer", "EndRoot">>
    /\ queue[3].resp = "system"
    /\ queue[4].resp = "unit"

\* C19: the Counter equals the number of activations handed to the responder
\* system so far; in particular, when no activation was handed to it in pass 1
\* and the button of Scenario B reports "clicked" in pass 2, the Counter is 1
\* after pass 2.
C19_CountsActivations ==
    /\ counter = delivered + Activations(trace)
    /\ (pass = 2 /\ Drained /\ ctxAvail /\ ScenarioB /\ delivered = 0
            /\ \E i \in Calls("draw") : trace[i].cmd = 3 /\ trace[i].res = "clicked") =>
        counter = 1

\* pass 2 of Scenario B has been drained with the button activated in it only
C19_Witness ==
    /\ pass = 2
    /\ Drained
    /\ ScenarioB
    /\ delivered = 0
    /\ ResponderUnit \in cache
    /\ \E i \in Calls("draw") : trace[i].cmd = 3 /\ trace[i].res = "clicked"
    /\ counter = 1

(* ---- C20 ---- *)
\* the step runs the cached system k: a cached widget is converted, a
\* SystemResponder is handed a result
Uses(k) ==
    \E i \in NewCalls :
        \/ k = WidgetUnit /\ trace'[i].op = "convert" /\ trace'[i].wkind = "cached"
        \/ k = ResponderUnit /\ trace'[i].op = "respond" /\ trace'[i].resp = "system"

\* the step has started a run of the cached system k through WorldUi::run_cached
\* or WorldUi::run_cached_with
RunsDirect(k) == Len(active') > Len(active) /\ active'[Len(active')].unit = k

\* C20: a cached system has been initialised once if it is cached and never
\* otherwise; a step that runs it, from a queued command or from a direct
\* call, leaves it cached; once cached it stays cached and is not initialised
\* again, in this pass and in the later ones.
C20_InitialisedOnce ==
    /\ [](\A k \in Units : inits[k] = (IF k \in cache THEN 1 ELSE 0))
    /\ [][\A k \in Units :
            /\ (Uses(k) \/ RunsDirect(k)) => k \in cache'
            /\ k \in cache => (k \in cache' /\ inits'[k] = inits[k])]_vars

\* in a later pass the widget system has been run from two call sites
C20_Witness ==
    /\ pass = 2
    /\ WidgetUnit \in cache
    /\ inits[WidgetUnit] = 1
    /\ Cardinality({i \in Calls("convert") : trace[i].wkind = "cached"}) = 2

(* ---- C26 ---- *)
\* C26: a drained script built with the verbs, with a context, has reported
\* nothing, has drawn every add-widget command exactly once and handed its
\* result to the responder exactly once, and leaves no stack (depth 0).
C26_WellFormedDrain ==
    (Drained /\ ctxAvail) =>
        /\ Calls("warn") = {}
        /\ ~Aborted
        /\ ~uiStack.some
        /\ Depth = 0
        /\ \A n \in 1..Len(queue) :
            queue[n].kind = "Widget" =>
                /\ Cardinality({i \in Calls("draw") : trace[i].cmd = queue[n].seq}) = 1
                /\ Cardinality({i \in Calls("respond") : trace[i].cmd = queue[n].seq}) = 1

\* Scenario A: open-top-level, add-widget, close-top-level has been drained
C26_Witness ==
    /\ Drained
    /\ ctxAvail
    /\ KindSeq = <<"StartRoot", "Widget", "EndRoot">>
    /\ Cardinality(Calls("draw")) = 1
    /\ Calls("warn") = {}
    /\ Depth = 0

(* ---- C27 ---- *)
\* the step is the apply of a command of kind k on a UiStack of depth >= n
OnStack(k, n) ==
    /\ Pending
    /\ uiStack.some
    /\ StackLen(uiStack.stack) >= n
    /\ Current.kind = k

\* begin is called with the top entry as parent and one entry for the region
\* of the command is put on top of the d entries
OpenEffect ==
    LET s == uiStack.stack
        d == StackLen(s)
    IN  /\ trace' = Append(trace, BeginEvent(Current, s[d].region))
        /\ uiStack'.some
        /\ StackLen(uiStack'.stack) = d + 1
        /\ SubSeq(uiStack'.stack, 1, d) = s
        /\ uiStack'.stack[d + 1].region = Current.region

\* the widget is drawn against the top entry and the stack is left as it is
DrawEffect ==
    LET s == uiStack.stack
        d == StackLen(s)
    IN  /\ uiStack' = uiStack
        /\ \E i \in NewCalls :
            /\ trace'[i].op = "draw"
            /\ trace'[i].cmd = Current.seq
            /\ trace'[i].top = s[d].region

\* exactly the top entry is taken off
CloseRemoves == uiStack'.some /\ uiStack'.stack = SubSeq(uiStack.stack, 1, StackLen(uiStack.stack) - 1)

\* end is called on the entry taken off with the entry below as parent
CloseFinalises ==
    LET s == uiStack.stack
        d == StackLen(s)
    IN  \E i \in NewCalls :
            /\ trace'[i].op = "end"
            /\ trace'[i].data = s[d]
            /\ trace'[i].parent = s[d - 1].region

\* C27 as stated: on a UiStack of depth d >= 1 an open-container command
\* calls begin with the top entry as parent and pushes one entry, an
\* add-widget command draws against the top entry and leaves the stack as it
\* is, and every close-container command at depth d >= 2 takes exactly the top
\* entry off and calls end on it with the entry below as parent.
C27_FrameEffectsAnyClose ==
    [][/\ OnStack("StartContainer", 1) => OpenEffect
       /\ OnStack("Widget", 1) => DrawEffect
       /\ OnStack("EndContainer", 2) => (CloseRemoves /\ CloseFinalises)]_vars

\* C27: on a UiStack of depth d >= 1, an open-container command calls begin
\* with the top entry as parent and puts one entry for its region on top of
\* the d entries; an add-widget command draws against the top entry and
\* leaves the stack as it is; a close-container command at depth d >= 2 takes
\* exactly the top entry off, and calls end on it with the entry below as
\* parent when the entry is of the closer's type; when it is not, end is not
\* called and the command only reports that no container was started.
C27_FrameEffects ==
    [][/\ OnStack("StartContainer", 1) => OpenEffect
       /\ OnStack("Widget", 1) => DrawEffect
       /\ OnStack("EndContainer", 2) =>
            /\ CloseRemoves
            /\ IF Top(uiStack.stack).ty = Current.ty
               THEN CloseFinalises
               ELSE trace' = Append(trace, Warn(Current, "No Container was started"))]_vars

\* a container opened inside the root has been closed at depth 2: its entry
\* has been taken off and ended with the root's region as parent
C27_Witness ==
    /\ Drained
    /\ KindSeq = <<"StartRoot", "StartContainer", "EndContainer">>
    /\ uiStack.some
    /\ StackLen(uiStack.stack) = 1
    /\ Cardinality(Calls("begin")) = 2
    /\ \E i \in Calls("end") :
        /\ trace[i].cmd = 3
        /\ trace[i].data.region = 2
        /\ trace[i].parent = 1

(* ---- C29 ---- *)
\* C29: an add-widget command applied to a UiStack without entries only
\* reports: no conversion, no draw, no responder, and the stack, the cached
\* systems, their initialisations and the Counter are as before.
C29_NoRegionNoOp ==
    [][(Pending /\ Current.kind = "Widget" /\ uiStack.some /\ uiStack.stack = <<>>) =>
        /\ Len(trace') > Len(trace)
        /\ \A i \in NewCalls : trace'[i].op = "warn"
        /\ uiStack' = uiStack
        /\ cache' = cache
        /\ inits' = inits
        /\ counter' = counter]_vars

(* ---- C30 ---- *)
\* C30: at every moment of a build pass the queue is well nested: no prefix
\* has more closes than opens; an open-top-level command comes at depth 0, its
\* close at depth 1, container and widget commands at depth 1 or more; every
\* close follows the open of its region, is of the same family and is the only
\* close of that region; the opens without a close yet are the show calls
\* still running, so a finished script has exactly one close per open.
C30_WellNested ==
    /\ \A n \in 1..Len(queue) :
        LET c == queue[n]
            before == Balance(n - 1)
        IN  /\ Balance(n) >= 0
            /\ c.kind = "StartRoot" => before = 0
            /\ c.kind = "EndRoot" => before = 1
            /\ c.kind \in {"StartContainer", "Widget"} => before >= 1
            /\ c.kind = "EndContainer" => before >= 2
            /\ IsClose(c) =>
                /\ c.region \in 1..(n - 1)
                /\ queue[c.region].kind = OpenKindOf(c.kind)
                /\ queue[c.region].ty = c.ty
            /\ IsOpen(c) => Cardinality(ClosesOf(c.region)) <= 1
    /\ Balance(Len(queue)) = Len(frames)
    /\ frames = <<>> => \A n \in 1..Len(queue) :
        IsOpen(queue[n]) => Cardinality(ClosesOf(queue[n].region)) = 1

\* a finished script with a container and a widget nested in a root
C30_Witness ==
    /\ phase = "drain"
    /\ KindSeq = <<"StartRoot", "StartContainer", "Widget", "EndContainer", "EndRoot">>

(* ---- C25 ---- *)
\* C25: a system definition of non-zero size never gets into the cache: a
\* program holding one does not get past its build, so nothing of it is ever
\* queued, applied or registered; every program that runs has definitions of
\* size 0 only.
C25_NonZstNeverCached ==
    /\ \A k \in cache : sizes[k] = 0
    /\ phase \in {"build", "drain"} => \A k \in Units : sizes[k] = 0
    /\ (\E k \in Units : sizes[k] # 0) =>
        /\ phase \in {"compile", "rejected"}
        /\ queue = <<>>
        /\ trace = <<>>
        /\ cache = {}

\* the build of a program whose responder system has a size has been stopped
C25_Witness ==
    /\ phase = "rejected"
    /\ sizes[ResponderUnit] = 8
    /\ sizes[WidgetUnit] = 0
    /\ cache = {}

(* ---- C28 ---- *)
\* the step has called one of the program's callbacks
CallsBack ==
    \E i \in NewCalls : trace'[i].op \in {"begin", "convert", "draw", "end", "respond"}

\* the callbacks handed &mut World that the step has called
RanMut ==
    {m \in Mutators : \E i \in NewCalls :
        \/ m = "convert" /\ trace'[i].op = "convert" /\ trace'[i].wkind = "cached"
        \/ m = "respond" /\ trace'[i].op = "respond" /\ trace'[i].resp = "system"}

\* the stack the command itself leaves: open-container adds the entry of its
\* region, add-widget changes nothing, close-container removes the top entry
OwnEffect ==
    LET s == uiStack.stack
        d == StackLen(s)
    IN  /\ uiStack'.some
        /\ Current.kind = "StartContainer" =>
            uiStack'.stack = Append(s, BeginData(Current, s[d].region))
        /\ Current.kind = "Widget" => uiStack'.stack = s
        /\ Current.kind = "EndContainer" => uiStack'.stack = SubSeq(s, 1, d - 1)

\* a container or widget command of a program with meddling callbacks calls
\* its callbacks
MeddledStep ==
    /\ Pending
    /\ meddling \in Meddlings
    /\ uiStack.some
    /\ CallsBack
    /\ Current.kind \in {"StartContainer", "Widget", "EndContainer"}

\* C28 as stated: whatever the callbacks of a container or widget command do
\* with the World they are handed, the command finishes and leaves the stack
\* in the World, changed by its own push or pop only.
C28_StackOutOfReach == [][MeddledStep => OwnEffect]_vars

\* C28: begin, draw and end are handed no mutable World; a conversion or a
\* responder that tries to pop the UiStack of the World it is handed finds
\* none, and the command leaves the stack changed by its own push or pop only;
\* a conversion or a responder that inserts a UiStack of its own makes the
\* command panic when its scope ends, after its callbacks have run, and the
\* World then holds the inserted stack.
C28_StackOutOfReachOrPanic ==
    [][MeddledStep =>
        IF meddling.how = "insert" /\ meddling.who \cap RanMut # {}
        THEN /\ trace'[Len(trace')] = Panic(Current)
             /\ uiStack' = SomeStack(EmptyUiStack)
        ELSE /\ OwnEffect
             /\ trace'[Len(trace')].op # "panic"]_vars

\* a popping system responder has run after the draw of a widget inside a
\* container, and the stack still holds the root's and the container's entries
C28_Witness ==
    /\ meddling = [how |-> "pop", who |-> {"respond"}]
    /\ Drained
    /\ KindSeq = <<"StartRoot", "StartContainer", "Widget">>
    /\ Cardinality(Calls("begin")) = 2
    /\ \E i \in Calls("respond") : trace[i].resp = "system"
    /\ uiStack.some
    /\ StackLen(uiStack.stack) = 2

(* ---- C23 ---- *)
\* the calls the script makes inside region r (0: outside every root), in
\* program order
Children(r) ==
    SelectSeq(queue, LAMBDA c :
        c.owner = r /\ c.kind \in {"StartRoot", "StartContainer", "Widget"})

\* the regions of the containers of the script
ContainerRegions == {queue[i].region : i \in {k \in 1..Len(queue) : queue[k].kind = "StartContainer"}}

\* slip: the contents are run before the region is opened
ShowOrderContentsFirst(open, contents, close) == contents \o open \o close

\* Container::show: egui opens the region, calls f(ui) inside it and closes
\* the region when f has returned
ShowOrder(open, contents, close) == open \o contents \o close

\* WorldUi::add: widget.into_widget().draw(self.reborrow())
AddDirect(c, r) == [op |-> "draw", cmd |-> c.seq, top |-> r]

RECURSIVE ShowDirect(_, _, _), ContentsDirect(_, _, _)
\* WorldCtx::show / WorldUi::show of the region of c inside region p; closed:
\* the containers egui does not call the closure of (a closed ComboBox or
\* SubMenu, a collapsed CollapsingHeader: Option in Out<R>)
ShowDirect(c, p, closed) ==
    ShowOrder(<<[op |-> "begin", region |-> c.region, parent |-> p]>>,
              IF c.region \in closed THEN <<>>
              ELSE ContentsDirect(Children(c.region), c.region, closed),
              <<[op |-> "end", region |-> c.region, parent |-> p]>>)

\* the body of the closure of region r: its calls one after another
ContentsDirect(cs, r, closed) ==
    IF cs = <<>> THEN <<>>
    ELSE (IF Head(cs).kind = "Widget" THEN <<AddDirect(Head(cs), r)>>
          ELSE ShowDirect(Head(cs), r, closed))
         \o ContentsDirect(Tail(cs), r, closed)

\* the script run on the immediate-mode surface: WorldCtx::new yields nothing
\* without a rendering context
DirectTrace(closed) == IF ctxAvail THEN ContentsDirect(Children(0), 0, closed) ELSE <<>>

\* the region-open, widget-draw and region-close events of the drain
DeferredTrace ==
    LET evs == SelectSeq(trace, LAMBDA e : e.op \in {"begin", "draw", "end"})
    IN  [i \in 1..Len(evs) |->
            IF evs[i].op = "draw"
            THEN [op |-> "draw", cmd |-> evs[i].cmd, top |-> evs[i].top]
            ELSE [op |-> evs[i].op, region |-> evs[i].region, parent |-> evs[i].parent]]

RECURSIVE Within(_, _)
\* region r (0: none) is a closed container or lies inside one
Within(r, closed) == r # 0 /\ (r \in closed \/ Within(queue[r].owner, closed))

\* the event is of a call made inside a closed container
Skipped(e, closed) == Within(IF e.op = "draw" THEN e.top ELSE e.parent, closed)

\* C23 as stated: once the queue of a script is drained, the region-open,
\* widget-draw and region-close events it has produced are the events the same
\* script produces when its show and add calls are run directly, whichever of
\* its containers are closed.
C23_SameTraceEitherWay ==
    Drained => \A closed \in SUBSET ContainerRegions : DeferredTrace = DirectTrace(closed)

\* C23: run directly, the script produces the events of the drained queue, in
\* the same order and with the same parent regions, less the events of the
\* calls made inside a container that is closed; with every container open
\* the two traces are equal, and without a rendering context both are empty.
C23_SameTraceWhereShown ==
    Drained =>
        /\ DeferredTrace = DirectTrace({})
        /\ \A closed \in SUBSET ContainerRegions :
            DirectTrace(closed) = SelectSeq(DeferredTrace, LAMBDA e : ~Skipped(e, closed))

\* a root holding a container with a widget has been drained; with the
\* container closed the direct run opens and closes it and draws nothing
C23_Witness ==
    /\ Drained
    /\ ctxAvail
    /\ KindSeq = <<"StartRoot", "StartContainer", "Widget", "EndContainer", "EndRoot">>
    /\ Len(DirectTrace({})) = 5
    /\ DirectTrace({})[3] = [op |-> "draw", cmd |-> 3, top |-> 2]
    /\ Len(DirectTrace({2})) = 4

(* ---- C21 ---- *)
\* the finished runs of cached systems, in the order they finished
Runs == SelectSeq(calls, LAMBDA r : r.kind = "run" /\ r.ok)

\* C21: every run of a cached system has received the extra value passed at
\* its own call site, and what it hands back is made of that value and of the
\* counter alone, whatever was passed in earlier calls of the same system.
C21_ExtraPerCall ==
    \A i \in 1..Len(Runs) :
        /\ Runs[i].got = Runs[i].passed
        /\ Runs[i].out = Body(Runs[i].seen, Runs[i].passed)
        /\ Runs[i].passed # NoExtra => Runs[i].out = Runs[i].seen + Runs[i].passed[1]

\* the same system has been run with 5 and then with 0
C21_Witness ==
    /\ Len(Runs) = 2
    /\ Runs[1].unit = Runs[2].unit
    /\ Runs[1].during = 0
    /\ Runs[2].during = 0
    /\ Runs[1].passed = <<5>>
    /\ Runs[2].passed = <<0>>
    /\ Runs[2].out = Runs[2].seen

(* ---- C22 ---- *)
\* C22: a call for a cached system that is running is over only after the
\* running invocation has finished, and no two invocations of one system are
\* running at the same time.
C22_ReentrantBlocks ==
    /\ \A i \in 1..Len(calls) :
        (calls[i].kind = "run" /\ calls[i].during # 0) =>
            \A j \in 1..Len(active) : active[j].id # calls[i].during
    /\ \A i, j \in 1..Len(active) : active[i].unit = active[j].unit => i = j

(* ---- C24 ---- *)
\* the add calls made so far
Adds == SelectSeq(calls, LAMBDA r : r.kind = "add")

\* C24: an add of a tuple has drawn as many times as the tuple has elements,
\* the i-th draw being the i-th element's, against the region of the call; the
\* i-th position of what it hands back is the result of the i-th draw; the
\* empty tuple has drawn nothing and hands back the empty tuple.
C24_TupleLeftToRight ==
    \A n \in 1..Len(Adds) :
        LET a == Adds[n] IN
        /\ Len(a.draws) = Len(a.widgets)
        /\ Len(a.out) = Len(a.widgets)
        /\ \A i \in 1..Len(a.widgets) :
            /\ a.draws[i].widget = a.widgets[i]
            /\ a.draws[i].tick = i
            /\ a.draws[i].region = a.region
            /\ a.out[i] = a.draws[i].res
            /\ a.out[i] = IF a.clicks[i] THEN "clicked" ELSE "idle"
        /\ a.widgets = <<>> => (a.draws = <<>> /\ a.out = <<>>)

\* a clicked label and an idle button have been added as one tuple
C24_Witness ==
    /\ Len(Adds) = 1
    /\ Len(Adds[1].draws) = 2
    /\ Adds[1].widgets = <<"label", "button">>
    /\ Adds[1].out = <<"clicked", "idle">>
    /\ Adds[1].region = DirectRegion

====
